---- MODULE Spec2Model ----
(***************************************************************************)
(* Chronometer_MFS-01_DEV.ino: a clock on an Arduino with a multi-function *)
(* shield.  Two contexts share the time register hd:he:md:me:s             *)
(*   - ISR(TIMER1_COMPA_vect), once a second; interrupts are disabled      *)
(*     while it runs, so it is one atomic step;                            *)
(*   - loop(), the foreground, which the ISR may preempt between any two   *)
(*     accesses of a volatile field.  Every such access is its own step    *)
(*     of the foreground (pc); a read-modify-write (he++) is a read into   *)
(*     the register r followed by a write.                                 *)
(* All shared fields are single bytes: a store is never torn, and the      *)
(* stores of loop() happen in program order.                               *)
(* The display is the frame: the four segment patterns loop() shifts out,  *)
(* one digit (one read of a field) per step, so the ISR may fire between   *)
(* two digits of a frame.                                                  *)
(***************************************************************************)
EXTENDS Naturals, Integers, Sequences, FiniteSets, TLC

\* ---- bounds of the model ----
\* firings of the timer interrupt explored from an initial state
MaxTicks == 2
\* button-1 / button-2 presses handled in set mode from an initial state
MaxPresses == 1
\* hourly-signal pulses emitted from an initial state
MaxChimes == 1

\* ---- program constants ----
\* enum displayModeValues
MODE_SET_CLOCK_TIME == 0
MODE_CLOCK_TIME == 1
MODE_SET_ALARM_TIME == 2
MODE_ALARM_TIME == 3

\* digitalRead levels; the buttons are active low
LOW == "LOW"
HIGH == "HIGH"
Level == {LOW, HIGH}
\* #define ON LOW / #define OFF HIGH
ON == LOW
OFF == HIGH

\* a byte
Byte(n) == n % 256

VARIABLES
  hd, he, md, me, s,   \* volatile byte: tens/units of hours, of minutes; seconds
  displayMode,         \* byte displayMode
  buzzer,              \* level of the BUZZER pin
  pc,                  \* position of loop()
  r,                   \* the register holding the value read by a ++ (0 when dead)
  ticks,               \* firings of the ISR so far
  clicks,              \* ON-then-OFF pulses of the buzzer made by the ISR
  chimes,              \* pulses started by the hourly signal of loop()
  presses,             \* presses of button 1 or 2 handled in set mode
  atTick,              \* the last firing of the ISR: <<it interrupted an increment of
                       \* loop(), displayMode, reg>> as it found them
  frame,               \* the segment patterns shifted out for the digits of the frame
                       \* being drawn (of the last frame, once it has its four digits)
  ftick,               \* the ISR has fired between two digits of that frame
  k,                   \* int k of the redraw loop being run (0 outside one)
  atPress,             \* reg as the press being handled in set mode found it
  b1Held               \* button 1 has read LOW at every sample since the press of
                       \* buttons 1 and 2 that entered set mode

reg == <<hd, he, md, me, s>>
vars == <<hd, he, md, me, s, displayMode, buzzer, pc, r, ticks, clicks, chimes, presses, atTick,
          frame, ftick, k, atPress, b1Held>>

\* ------------------------------------------------------------------------
\* ISR(TIMER1_COMPA_vect)
\* ------------------------------------------------------------------------

\* line 317: if (displayMode != MODE_SET_CLOCK_TIME) s++;
IsrCountsM(mode) == TRUE
IsrCounts(mode) == mode # MODE_SET_CLOCK_TIME

\* lines 325-335: the hour fields when the minutes carry
IsrHourM(h) == IF h[1] = 2
                 THEN IF h[2] = 4 THEN <<0, 0>> ELSE <<h[1], Byte(h[2] + 1)>>
                 ELSE IF h[2] = 9 THEN <<Byte(h[1] + 1), 0>>
                                  ELSE <<h[1], Byte(h[2] + 1)>>
IsrHour(h) == IF h[1] = 2
                THEN IF h[2] = 3 THEN <<0, 0>> ELSE <<h[1], Byte(h[2] + 1)>>
                ELSE IF h[2] = 9 THEN <<Byte(h[1] + 1), 0>>
                                 ELSE <<h[1], Byte(h[2] + 1)>>

\* lines 321-339: the minute fields (and the hour) when the seconds carry;
\* m = <<hd, he, md, me>>
IsrMinuteM(m) == IF m[4] = 9
                   THEN <<m[1], m[2], Byte(m[3] + 1), 0>>
                   ELSE <<m[1], m[2], m[3], Byte(m[4] + 1)>>
IsrMinute(m) == IF m[4] = 9
                  THEN IF m[3] = 5
                         THEN LET h == IsrHour(<<m[1], m[2]>>) IN <<h[1], h[2], 0, 0>>
                         ELSE <<m[1], m[2], Byte(m[3] + 1), 0>>
                  ELSE <<m[1], m[2], m[3], Byte(m[4] + 1)>>

\* lines 317-340: the register after the handler; t = <<hd, he, md, me, s>>
IsrSecondM(mode, t) == LET s1 == IF IsrCounts(mode) THEN Byte(t[5] + 1) ELSE t[5]
                       IN  IF s1 = 59
                             THEN LET m == IsrMinute(<<t[1], t[2], t[3], t[4]>>)
                                  IN  <<m[1], m[2], m[3], m[4], 0>>
                             ELSE <<t[1], t[2], t[3], t[4], s1>>
IsrSecond(mode, t) == LET s1 == IF IsrCounts(mode) THEN Byte(t[5] + 1) ELSE t[5]
                      IN  IF s1 = 60
                            THEN LET m == IsrMinute(<<t[1], t[2], t[3], t[4]>>)
                                 IN  <<m[1], m[2], m[3], m[4], 0>>
                            ELSE <<t[1], t[2], t[3], t[4], s1>>

\* lines 318 and 341: digitalWrite(BUZZER, ON) ... digitalWrite(BUZZER, OFF),
\* both unconditional: the buzzer pulses the handler makes in a mode
IsrPulsesM(mode) == IF mode = MODE_SET_CLOCK_TIME THEN 0 ELSE 1
IsrPulses(mode) == 1

\* positions of loop() between the first read and the last write of an increment
InIncrement == {"h_hd", "h_he2", "h_he9", "h_clr_he", "h_clr_hd", "h_car_he",
                "h_car_rd", "h_car_wr", "h_inc_rd", "h_inc_wr",
                "m_me", "m_clr_me", "m_md", "m_clr_md", "m_car_rd", "m_car_wr",
                "m_inc_rd", "m_inc_wr"}

\* the handler, one atomic step at any position of loop()
Tick ==
  /\ ticks < MaxTicks
  /\ LET t == IsrSecond(displayMode, reg)
     IN  /\ hd' = t[1]
         /\ he' = t[2]
         /\ md' = t[3]
         /\ me' = t[4]
         /\ s'  = t[5]
  /\ clicks' = clicks + IsrPulses(displayMode)
  /\ buzzer' = OFF
  /\ ticks' = ticks + 1
  /\ atTick' = <<pc \in InIncrement, displayMode, reg>>
  /\ ftick' = (ftick \/ Len(frame) \in 1..3)
  /\ UNCHANGED <<displayMode, pc, r, chimes, presses, frame, k, atPress, b1Held>>

\* ------------------------------------------------------------------------
\* loop()
\* ------------------------------------------------------------------------

\* the foreground leaves everything but pc alone
Goto(p) == /\ pc' = p
           /\ UNCHANGED <<hd, he, md, me, s, displayMode, buzzer, r, ticks, clicks, chimes, presses, atTick, frame, ftick, k, atPress, b1Held>>

\* the foreground loads a field into the register (the read of a ++)
Load(v, p) == /\ r' = v
              /\ pc' = p
              /\ UNCHANGED <<hd, he, md, me, s, displayMode, buzzer, ticks, clicks, chimes, presses, atTick, frame, ftick, k, atPress, b1Held>>

\* lines 40-51: SEGMENT_MAP[], the segment pattern of each digit 0..9
SEGMENT_MAP == <<3, 159, 37, 13, 153, 73, 65, 31, 1, 9>>

\* SEGMENT_MAP[d]; the clock only indexes it with a digit 0..9
Seg(d) == SEGMENT_MAP[d + 1]

\* lines 206-227 (and 146-164, 181-202, 283-301): the pattern of digit i
\* of a set-mode frame when the time fields are t
SetDigit(i, t) == Seg(t[i + 1])

\* lines 236-276: the pattern of digit i of a clock-mode frame when the
\* time fields are t: md me s/10 s%10 while button 3 is held, and
\* hd he md me with the point of the second digit lit otherwise
ClockDigitM(held, i, t) ==
  IF i = 1 THEN Seg(t[2]) - 1 ELSE Seg(<<t[1], t[2], t[3], t[4]>>[i + 1])
ClockDigit(held, i, t) ==
  IF held
    THEN Seg(<<t[3], t[4], t[5] \div 10, t[5] % 10>>[i + 1])
    ELSE IF i = 1 THEN Seg(t[2]) - 1 ELSE Seg(<<t[1], t[2], t[3], t[4]>>[i + 1])

\* the position 0..3 of the digit loop() shifts out next
FramePos == IF Len(frame) = 4 THEN 0 ELSE Len(frame)

\* one shiftOut of a pattern p: the digit joins the frame being drawn, and
\* the first digit starts a new frame
Shift(p, to) ==
  /\ frame' = IF FramePos = 0 THEN <<p>> ELSE Append(frame, p)
  /\ ftick' = IF FramePos = 0 THEN FALSE ELSE ftick
  /\ pc' = IF FramePos = 3 THEN to ELSE pc
  /\ UNCHANGED <<hd, he, md, me, s, displayMode, buzzer, r, ticks, clicks, chimes, presses, atTick, k, atPress, b1Held>>

\* lines 145, 180, 282: for (int k = 0; k < 300; k++)
DWELL == 300

\* the condition that ends a redraw loop after its k-th iteration
DwellDoneM(n) == n > DWELL
DwellDone(n) == n >= DWELL

\* n iterations of a redraw loop, each a frame hd he md me, k++ and the
\* loop condition.  The loops run in set mode, where the ISR leaves the
\* fields alone, so the four reads of a frame are one step here.  With
\* n = 1 the ISR may fire between any two iterations; with n = DWELL it
\* fires before or after the loop, which differs from firing inside it in
\* nothing but k.
DwellLoop(at, to, n) ==
  /\ pc = at
  /\ frame' = <<SetDigit(0, reg), SetDigit(1, reg), SetDigit(2, reg), SetDigit(3, reg)>>
  /\ ftick' = FALSE
  /\ IF DwellDone(k + n)
       THEN /\ k' = 0
            /\ atPress' = <<>>
            /\ pc' = to
       ELSE /\ k' = k + n
            /\ UNCHANGED <<atPress, pc>>
  /\ UNCHANGED <<hd, he, md, me, s, displayMode, buzzer, r, ticks, clicks, chimes, presses, atTick, b1Held>>

\* line 127: switch (displayMode); the alarm modes have no case
Switch ==
  /\ pc = "top"
  /\ Goto(CASE displayMode = MODE_SET_CLOCK_TIME -> "set_b3"
            [] displayMode = MODE_CLOCK_TIME -> "clk_b3"
            [] OTHER -> "sw_b1")

\* line 130: while (digitalRead(B_03) != LOW)
PollButton3 ==
  /\ pc = "set_b3"
  /\ \E b3 \in Level : Goto(IF b3 # LOW THEN "set_b1" ELSE "exit_s")

\* line 131: if (digitalRead(B_01) == LOW)
PollButton1 ==
  /\ pc = "set_b1"
  /\ \E b1 \in Level :
       IF b1 = LOW
         THEN /\ presses < MaxPresses
              /\ pc' = "h_hd"
              /\ presses' = presses + 1
              /\ atPress' = reg
              /\ UNCHANGED <<hd, he, md, me, s, displayMode, buzzer, r, ticks, clicks, chimes, atTick, frame, ftick, k, b1Held>>
         ELSE /\ pc' = "set_b2"
              /\ b1Held' = FALSE
              /\ UNCHANGED <<hd, he, md, me, s, displayMode, buzzer, r, ticks, clicks, chimes, presses, atTick, frame, ftick, k, atPress>>

\* line 133: if (he > 2), the reset of the hour in set mode when hd == 2
SetHourWrapsM(units) == units > 3
SetHourWraps(units) == units > 2

\* lines 132-144: the hour fields after the hour increment of button 1,
\* as a function of the hour fields h = <<hd, he>> it finds
SetHourM(h) == IF h[1] = 2
                 THEN IF h[2] > 3 THEN <<0, 0>> ELSE <<h[1], Byte(h[2] + 1)>>
                 ELSE IF h[2] = 9 THEN <<Byte(h[1] + 1), 0>>
                                  ELSE <<h[1], Byte(h[2] + 1)>>
SetHour(h) == IF h[1] = 2
                THEN IF SetHourWraps(h[2]) THEN <<0, 0>> ELSE <<h[1], Byte(h[2] + 1)>>
                ELSE IF h[2] = 9 THEN <<Byte(h[1] + 1), 0>>
                                 ELSE <<h[1], Byte(h[2] + 1)>>

\* lines 132-144: the hour increment of button 1, access by access
HourIncrement ==
  /\ pc \in {"h_hd", "h_he2", "h_he9", "h_clr_he", "h_clr_hd", "h_car_he",
             "h_car_rd", "h_car_wr", "h_inc_rd", "h_inc_wr"}
  /\ CASE pc = "h_hd"     -> Goto(IF hd = 2 THEN "h_he2" ELSE "h_he9")
       [] pc = "h_he2"    -> Goto(IF SetHourWraps(he) THEN "h_clr_he" ELSE "h_inc_rd")
       [] pc = "h_he9"    -> Goto(IF he = 9 THEN "h_car_he" ELSE "h_inc_rd")
       [] pc = "h_clr_he" -> /\ he' = 0
                             /\ pc' = "h_clr_hd"
                             /\ UNCHANGED <<hd, md, me, s, displayMode, buzzer, r, ticks, clicks, chimes, presses, atTick, frame, ftick, k, atPress, b1Held>>
       [] pc = "h_clr_hd" -> /\ hd' = 0
                             /\ pc' = "dwell_h"
                             /\ UNCHANGED <<he, md, me, s, displayMode, buzzer, r, ticks, clicks, chimes, presses, atTick, frame, ftick, k, atPress, b1Held>>
       [] pc = "h_car_he" -> /\ he' = 0
                             /\ pc' = "h_car_rd"
                             /\ UNCHANGED <<hd, md, me, s, displayMode, buzzer, r, ticks, clicks, chimes, presses, atTick, frame, ftick, k, atPress, b1Held>>
       [] pc = "h_car_rd" -> Load(hd, "h_car_wr")
       [] pc = "h_car_wr" -> /\ hd' = Byte(r + 1)
                             /\ r' = 0
                             /\ pc' = "dwell_h"
                             /\ UNCHANGED <<he, md, me, s, displayMode, buzzer, ticks, clicks, chimes, presses, atTick, frame, ftick, k, atPress, b1Held>>
       [] pc = "h_inc_rd" -> Load(he, "h_inc_wr")
       [] pc = "h_inc_wr" -> /\ he' = Byte(r + 1)
                             /\ r' = 0
                             /\ pc' = "dwell_h"
                             /\ UNCHANGED <<hd, md, me, s, displayMode, buzzer, ticks, clicks, chimes, presses, atTick, frame, ftick, k, atPress, b1Held>>

\* lines 145-165: for (k < 300) redraw hd he md me
DwellHour == DwellLoop("dwell_h", "set_b2", DWELL)

\* line 169: if (digitalRead(B_02) == LOW)
PollButton2 ==
  /\ pc = "set_b2"
  /\ \E b2 \in Level :
       IF b2 = LOW
         THEN /\ presses < MaxPresses
              /\ pc' = "m_me"
              /\ presses' = presses + 1
              /\ atPress' = reg
              /\ UNCHANGED <<hd, he, md, me, s, displayMode, buzzer, r, ticks, clicks, chimes, atTick, frame, ftick, k, b1Held>>
         ELSE Goto("set_render")

\* line 172: if (md == 5), the reset of the tens of minutes in set mode
SetMinuteWrapsM(tens) == tens = 6
SetMinuteWraps(tens) == tens = 5

\* lines 170-179: the minute increment of button 2, access by access
MinuteIncrement ==
  /\ pc \in {"m_me", "m_clr_me", "m_md", "m_clr_md", "m_car_rd", "m_car_wr",
             "m_inc_rd", "m_inc_wr"}
  /\ CASE pc = "m_me"     -> Goto(IF me = 9 THEN "m_clr_me" ELSE "m_inc_rd")
       [] pc = "m_clr_me" -> /\ me' = 0
                             /\ pc' = "m_md"
                             /\ UNCHANGED <<hd, he, md, s, displayMode, buzzer, r, ticks, clicks, chimes, presses, atTick, frame, ftick, k, atPress, b1Held>>
       [] pc = "m_md"     -> Goto(IF SetMinuteWraps(md) THEN "m_clr_md" ELSE "m_car_rd")
       [] pc = "m_clr_md" -> /\ md' = 0
                             /\ pc' = "dwell_m"
                             /\ UNCHANGED <<hd, he, me, s, displayMode, buzzer, r, ticks, clicks, chimes, presses, atTick, frame, ftick, k, atPress, b1Held>>
       [] pc = "m_car_rd" -> Load(md, "m_car_wr")
       [] pc = "m_car_wr" -> /\ md' = Byte(r + 1)
                             /\ r' = 0
                             /\ pc' = "dwell_m"
                             /\ UNCHANGED <<hd, he, me, s, displayMode, buzzer, ticks, clicks, chimes, presses, atTick, frame, ftick, k, atPress, b1Held>>
       [] pc = "m_inc_rd" -> Load(me, "m_inc_wr")
       [] pc = "m_inc_wr" -> /\ me' = Byte(r + 1)
                             /\ r' = 0
                             /\ pc' = "dwell_m"
                             /\ UNCHANGED <<hd, he, md, s, displayMode, buzzer, ticks, clicks, chimes, presses, atTick, frame, ftick, k, atPress, b1Held>>

\* lines 180-203: for (k < 300) redraw hd he md me
DwellMinute == DwellLoop("dwell_m", "set_render", DWELL)

\* lines 206-227: one frame hd he md me, then the while condition again
SetRender ==
  /\ pc = "set_render"
  /\ Shift(SetDigit(FramePos, reg), "set_b3")

\* line 229: s = 0, the seconds the clock starts at
ExitSecondsM(cur) == cur
ExitSeconds(cur) == 0

\* line 230: the mode button 3 starts
ExitModeM == MODE_ALARM_TIME
ExitMode == MODE_CLOCK_TIME

\* lines 229-231: s = 0; displayMode = MODE_CLOCK_TIME; break;
ExitSetMode ==
  /\ pc \in {"exit_s", "exit_mode"}
  /\ CASE pc = "exit_s"    -> /\ s' = ExitSeconds(s)
                              /\ pc' = "exit_mode"
                              /\ UNCHANGED <<hd, he, md, me, displayMode, buzzer, r, ticks, clicks, chimes, presses, atTick, frame, ftick, k, atPress, b1Held>>
       [] pc = "exit_mode" -> /\ displayMode' = ExitMode
                              /\ pc' = "sw_b1"
                              /\ UNCHANGED <<hd, he, md, me, s, buzzer, r, ticks, clicks, chimes, presses, atTick, frame, ftick, k, atPress, b1Held>>

\* lines 235-277: case MODE_CLOCK_TIME: one frame, md me s/10 s%10 while
\* button 3 is held and hd he. md me otherwise; nothing is written
ClockRender ==
  /\ pc \in {"clk_b3", "clk_ms", "clk_hm"}
  /\ CASE pc = "clk_b3" -> \E b3 \in Level : Goto(IF b3 = LOW THEN "clk_ms" ELSE "clk_hm")
       [] pc = "clk_ms" -> Shift(ClockDigit(TRUE, FramePos, reg), "sw_b1")
       [] pc = "clk_hm" -> Shift(ClockDigit(FALSE, FramePos, reg), "sw_b1")

\* lines 280-281: if (!digitalRead(B_01) && !digitalRead(B_02))
\*   { displayMode = MODE_SET_CLOCK_TIME; ... }
SwitchToSet ==
  /\ pc \in {"sw_b1", "sw_b2", "sw_mode"}
  /\ CASE pc = "sw_b1"    -> \E b1 \in Level :
                               /\ pc' = IF b1 = LOW THEN "sw_b2" ELSE "ch_s"
                               /\ b1Held' = FALSE
                               /\ UNCHANGED <<hd, he, md, me, s, displayMode, buzzer, r, ticks, clicks, chimes, presses, atTick, frame, ftick, k, atPress>>
       [] pc = "sw_b2"    -> \E b2 \in Level :
                               /\ pc' = IF b2 = LOW THEN "sw_mode" ELSE "ch_s"
                               /\ b1Held' = (b2 = LOW)
                               /\ UNCHANGED <<hd, he, md, me, s, displayMode, buzzer, r, ticks, clicks, chimes, presses, atTick, frame, ftick, k, atPress>>
       [] pc = "sw_mode"  -> /\ displayMode' = MODE_SET_CLOCK_TIME
                             /\ pc' = "dwell_sw"
                             /\ UNCHANGED <<hd, he, md, me, s, buzzer, r, ticks, clicks, chimes, presses, atTick, frame, ftick, k, atPress, b1Held>>

\* lines 282-302: for (k < 300) redraw hd he md me
DwellSwitch == DwellLoop("dwell_sw", "ch_s", DWELL)

\* lines 306-311: if (s == 0 && md == 0 && me == 0 && millis() % 1000 == 0)
\*   { digitalWrite(BUZZER, ON); delay(10); digitalWrite(BUZZER, OFF); }
\* (the stray "1" after the first statement of line 308 is left out.)
\* millis() counts Timer0 overflows, which this model does not time: whether
\* it is a multiple of 1000 at the call is an input.
HourlySignal ==
  /\ pc \in {"ch_s", "ch_md", "ch_me", "ch_millis", "ch_on", "ch_delay", "ch_off"}
  /\ CASE pc = "ch_s"      -> Goto(IF s = 0 THEN "ch_md" ELSE "top")
       [] pc = "ch_md"     -> Goto(IF md = 0 THEN "ch_me" ELSE "top")
       [] pc = "ch_me"     -> Goto(IF me = 0 THEN "ch_millis" ELSE "top")
       [] pc = "ch_millis" -> \E onTheSecond \in BOOLEAN :
                                Goto(IF onTheSecond /\ chimes < MaxChimes THEN "ch_on" ELSE "top")
       [] pc = "ch_on"     -> /\ buzzer' = ON
                              /\ chimes' = chimes + 1
                              /\ pc' = "ch_delay"
                              /\ UNCHANGED <<hd, he, md, me, s, displayMode, r, ticks, clicks, presses, atTick, frame, ftick, k, atPress, b1Held>>
       [] pc = "ch_delay"  -> Goto("ch_off")
       [] pc = "ch_off"    -> /\ buzzer' = OFF
                              /\ pc' = "top"
                              /\ UNCHANGED <<hd, he, md, me, s, displayMode, r, ticks, clicks, chimes, presses, atTick, frame, ftick, k, atPress, b1Held>>

Foreground ==
  \/ Switch
  \/ PollButton3
  \/ PollButton1
  \/ HourIncrement
  \/ DwellHour
  \/ PollButton2
  \/ MinuteIncrement
  \/ DwellMinute
  \/ SetRender
  \/ ExitSetMode
  \/ ClockRender
  \/ SwitchToSet
  \/ DwellSwitch
  \/ HourlySignal

\* the redraw loops of lines 145, 180 and 282, iteration by iteration
DwellHourPass == DwellLoop("dwell_h", "set_b2", 1)
DwellMinutePass == DwellLoop("dwell_m", "set_render", 1)
DwellSwitchPass == DwellLoop("dwell_sw", "ch_s", 1)

\* loop() with its redraw loops run iteration by iteration
ForegroundPass ==
  \/ Switch
  \/ PollButton3
  \/ PollButton1
  \/ HourIncrement
  \/ DwellHourPass
  \/ PollButton2
  \/ MinuteIncrement
  \/ DwellMinutePass
  \/ SetRender
  \/ ExitSetMode
  \/ ClockRender
  \/ SwitchToSet
  \/ DwellSwitchPass
  \/ HourlySignal

\* ------------------------------------------------------------------------
\* specifications
\* ------------------------------------------------------------------------

\* lines 63-67, 82 and setup(): power-on.  pinMode(BUZZER, OUTPUT) leaves the
\* port bit at its reset value 0, so the pin drives LOW.
Init ==
  /\ hd = 0 /\ he = 0 /\ md = 0 /\ me = 0 /\ s = 0
  /\ displayMode = MODE_SET_CLOCK_TIME
  /\ buzzer = LOW
  /\ pc = "top"
  /\ r = 0
  /\ ticks = 0 /\ clicks = 0 /\ chimes = 0 /\ presses = 0
  /\ atTick = <<>>
  /\ frame = <<>> /\ ftick = FALSE /\ k = 0 /\ atPress = <<>> /\ b1Held = FALSE

Next == Tick \/ Foreground

Spec == Init /\ [][Next]_vars

\* The time the register holds when a pass of loop() begins: every time of
\* day the clock can show is set with buttons 1 and 2 and then run to; the
\* seconds and the minutes are taken at the edges of their carries.
StartHours == {h \in (0..2) \X (0..9) : 10 * h[1] + h[2] <= 23}
StartMinutes == {<<0, 0>>, <<0, 9>>, <<5, 0>>, <<5, 9>>}
StartSeconds == {0, 58, 59}

\* a pass of loop() begins, in either mode, at one of these times
InitFrom ==
  /\ \E h \in StartHours : hd = h[1] /\ he = h[2]
  /\ \E m \in StartMinutes : md = m[1] /\ me = m[2]
  /\ s \in StartSeconds
  /\ displayMode \in {MODE_SET_CLOCK_TIME, MODE_CLOCK_TIME}
  /\ buzzer = OFF
  /\ pc = "top"
  /\ r = 0
  /\ ticks = 0 /\ clicks = 0 /\ chimes = 0 /\ presses = 0
  /\ atTick = <<>>
  /\ frame = <<>> /\ ftick = FALSE /\ k = 0 /\ atPress = <<>> /\ b1Held = FALSE

SpecFrom == InitFrom /\ [][Next]_vars

\* The handler alone, applied to any contents of the digit fields
\* (hd in 0..2, he in 0..9, also the pairs 24..29 that no hour has).
InitTick ==
  /\ hd \in 0..2 /\ he \in 0..9
  /\ \E m \in StartMinutes : md = m[1] /\ me = m[2]
  /\ s \in StartSeconds
  /\ displayMode \in {MODE_SET_CLOCK_TIME, MODE_CLOCK_TIME}
  /\ buzzer = OFF
  /\ pc = "top"
  /\ r = 0
  /\ ticks = 0 /\ clicks = 0 /\ chimes = 0 /\ presses = 0
  /\ atTick = <<>>
  /\ frame = <<>> /\ ftick = FALSE /\ k = 0 /\ atPress = <<>> /\ b1Held = FALSE

SpecTick == InitTick /\ [][Tick]_vars

\* Power-on with the redraw loops run iteration by iteration; nothing
\* stops the processor, so loop() always takes its next step.
NextPass == Tick \/ ForegroundPass
SpecPass == Init /\ [][NextPass]_vars /\ WF_vars(ForegroundPass)

\* ------------------------------------------------------------------------
\* properties
\* ------------------------------------------------------------------------

Hour == 10 * hd + he
Minute == 10 * md + me
InSetMode == displayMode = MODE_SET_CLOCK_TIME
InClockMode == displayMode = MODE_CLOCK_TIME
\* a step of the ISR; every other step is a step of loop()
TickStep == ticks' = ticks + 1
\* a step that brings loop() to position p
Reaches(p) == pc # p /\ pc' = p
\* a tick that carries into the hour
QualifyingTick == TickStep /\ InClockMode /\ Minute = 59 /\ s = 59

\* C1: in every state outside the tick handler the digit fields are in range
\* (hd 0..2, he 0..9, md 0..5, me 0..9, s 0..59) and the hour is at most 23.
C1_FieldRanges ==
  /\ hd \in 0..2 /\ he \in 0..9
  /\ md \in 0..5 /\ me \in 0..9
  /\ s \in 0..59
  /\ Hour <= 23

\* button 1 at hour 23 after a tick: he is cleared, hd is about to be
C1_Witness == pc = "h_clr_hd" /\ hd = 2 /\ he = 0 /\ ticks >= 1

\* C2: in clock mode a tick from seconds 0..58 adds one to the seconds and
\* leaves the hour and minute digits alone.
C2_SecondsIncrement ==
  [][(TickStep /\ InClockMode /\ s \in 0..58)
       => (s' = s + 1 /\ <<hd, he, md, me>>' = <<hd, he, md, me>>)]_vars

\* a tick in clock mode found the seconds at 58
C2_Witness ==
  /\ ticks >= 1
  /\ atTick[2] = MODE_CLOCK_TIME /\ atTick[3][5] = 58
  /\ s = 59

\* C3: in clock mode a tick from seconds 59 clears the seconds and advances
\* the minute by one: me 9 -> 0 carries into md, md wraps 5 -> 0; the hour
\* digits stay unless the minute was 59.
C3_MinuteCarry ==
  [][(TickStep /\ InClockMode /\ s = 59)
       => /\ s' = 0
          /\ me' = IF me = 9 THEN 0 ELSE me + 1
          /\ md' = IF me = 9 THEN (IF md = 5 THEN 0 ELSE md + 1) ELSE md
          /\ (Minute # 59 => <<hd, he>>' = <<hd, he>>)]_vars

\* a tick in clock mode carried minute x9 into the tens
C3_Witness ==
  /\ ticks >= 1
  /\ atTick[2] = MODE_CLOCK_TIME /\ atTick[3][3] = 0 /\ atTick[3][4] = 9 /\ atTick[3][5] = 59
  /\ md = 1 /\ me = 0 /\ s = 0

\* C4: in clock mode a tick from minute 59, second 59 clears minutes and
\* seconds and advances the hour by the 24-hour rule: 23 -> 00, and every
\* hour 0..22 goes up by one, he 9 -> 0 carrying into hd.
C4_HourCarry ==
  [][(QualifyingTick /\ Hour <= 23)
       => /\ md' = 0 /\ me' = 0 /\ s' = 0
          /\ (Hour = 23 => hd' = 0 /\ he' = 0)
          /\ (Hour <= 22 => /\ 10 * hd' + he' = Hour + 1
                            /\ he' = (IF he = 9 THEN 0 ELSE he + 1)
                            /\ hd' = (IF he = 9 THEN hd + 1 ELSE hd))]_vars

\* a tick carried 19:59:59 into 20:00:00
C4_Witness ==
  /\ ticks >= 1
  /\ atTick[2] = MODE_CLOCK_TIME /\ atTick[3] = <<1, 9, 5, 9, 59>>
  /\ reg = <<2, 0, 0, 0, 0>>

C6_ExitForcesSeconds ==
  [][/\ (InSetMode /\ ~InSetMode') => (displayMode' = MODE_CLOCK_TIME /\ s' = 0)
     /\ (pc \in {"exit_s", "exit_mode"} => <<hd, he, md, me>>' = <<hd, he, md, me>>)]_vars

\* the last tick left the seconds at 59; set mode was entered and is being
\* left, and the seconds are 0
C6_Witness ==
  /\ pc = "exit_mode" /\ s = 0
  /\ ticks >= 1
  /\ atTick[2] = MODE_CLOCK_TIME /\ atTick[3][5] = 58

\* C7: a tick in set mode leaves hd, he, md, me and s as they are.
C7_TickInSetMode ==
  [][(TickStep /\ InSetMode) => reg' = reg]_vars

\* two ticks in a row found set mode, the second with the seconds at 59
C7_Witness ==
  /\ ticks >= 2
  /\ atTick[2] = MODE_SET_CLOCK_TIME /\ atTick[3][5] = 59
  /\ s = 59

\* C8: the handler changes a field only outside set mode and loop() only in
\* set mode; a tick that interrupts an increment of loop() changes no field.
C8_SingleWriter ==
  [][/\ (TickStep /\ reg' # reg) => ~InSetMode
     /\ (~TickStep /\ reg' # reg) => InSetMode
     /\ (TickStep /\ pc \in InIncrement) => reg' = reg]_vars

\* a tick fired between the read and the write of he++
C8_Witness ==
  /\ ticks >= 1
  /\ pc = "h_inc_wr" /\ atTick[1]

\* C9: every firing of the handler makes exactly one buzzer pulse and leaves
\* the buzzer off, in set mode too.
C9_ClickPerTick ==
  [][TickStep => (clicks' = clicks + 1 /\ buzzer' = OFF)]_vars

\* a tick in set mode, where the seconds stand still, clicked
C9_Witness ==
  /\ ticks >= 1 /\ clicks = ticks
  /\ atTick[2] = MODE_SET_CLOCK_TIME
  /\ reg = atTick[3]

\* C10 as stated: in clock mode, `ticks` seconds after 05:00:00 and with no
\* chime sounded yet, an evaluation of the hourly signal that finds the
\* minutes at 0 emits the pulse (it does not return to the top of loop()
\* without one).
C10_ChimeAtFirstEvaluation ==
  [][(/\ ~TickStep
      /\ pc \in {"ch_s", "ch_md", "ch_me", "ch_millis"}
      /\ InClockMode /\ hd = 0 /\ he = 5 /\ Minute = 0 /\ s = ticks
      /\ chimes = 0)
       => pc' # "top"]_vars

\* C12: in set mode one press of button 1 resets both hour fields to 0 from
\* hd = 2 with he > 2 (from 23 in particular), increments he from hd = 2
\* with he in 0..2, and from hd in 0..1 increments the hour with he 9 -> 0
\* carrying into hd; the minute fields and the seconds are as the press
\* found them.  Stated where the increment has finished and its redraw loop
\* has not started.
C12_SetHourPress ==
  (pc = "dwell_h") =>
    /\ (atPress[1] = 2 /\ atPress[2] > 2) => (hd = 0 /\ he = 0)
    /\ (atPress[1] = 2 /\ atPress[2] <= 2) => (hd = 2 /\ he = atPress[2] + 1)
    /\ (atPress[1] <= 1 /\ atPress[2] = 9) => (hd = atPress[1] + 1 /\ he = 0)
    /\ (atPress[1] <= 1 /\ atPress[2] < 9) => (hd = atPress[1] /\ he = atPress[2] + 1)
    /\ <<md, me, s>> = <<atPress[3], atPress[4], atPress[5]>>

\* a press of button 1 at 23 has finished, with a tick during it
C12_Witness ==
  /\ pc = "dwell_h"
  /\ atPress[1] = 2 /\ atPress[2] = 3
  /\ hd = 0 /\ he = 0
  /\ ticks > 0

\* C13: in set mode one press of button 2 advances the minute by one modulo
\* 60 (me 9 -> 0 carries into md, md wraps 5 -> 0) and leaves the hour
\* fields and the seconds as the press found them.
C13_SetMinutePress ==
  (pc = "dwell_m") =>
    /\ Minute = (atPress[3] * 10 + atPress[4] + 1) % 60
    /\ md \in 0..5 /\ me \in 0..9
    /\ (atPress[4] = 9 /\ atPress[3] = 5) => (md = 0 /\ me = 0)
    /\ (atPress[4] = 9 /\ atPress[3] < 5) => (md = atPress[3] + 1 /\ me = 0)
    /\ (atPress[4] < 9) => (md = atPress[3] /\ me = atPress[4] + 1)
    /\ <<hd, he, s>> = <<atPress[1], atPress[2], atPress[5]>>

\* a press of button 2 at minute 59 has finished, with a tick during it
C13_Witness ==
  /\ pc = "dwell_m"
  /\ atPress[3] = 5 /\ atPress[4] = 9
  /\ md = 0 /\ me = 0
  /\ hd = atPress[1] /\ he = atPress[2]
  /\ ticks > 0

\* C11 as stated: the click and the chime are disabled at power-on and
\* enabled only by a button combination in clock mode, so from power-on
\* no click pulse and no chime pulse is emitted before loop() has sampled
\* any button (it stands at the top of its first pass).
C11_SilentBeforeAnyButton ==
  (pc = "top" /\ InSetMode /\ frame = <<>>) => (clicks = 0 /\ chimes = 0)

\* C11: the program has no enable flags.  From power-on every firing of the
\* ISR emits its click pulse whatever the buttons have done (clicks and
\* ticks advance together), and loop() emits the chime pulse whenever it
\* reaches line 308.
C11_PulsesUnconditional ==
  [][/\ clicks' - clicks = ticks' - ticks
     /\ (pc = "ch_on" /\ ~TickStep) => (chimes' = chimes + 1 /\ buzzer' = ON)]_vars

\* a click and a chime in the first pass of loop() from power-on, in which
\* no button was sampled in clock mode before the chime and nothing was drawn
C11_Witness ==
  /\ frame = <<>>
  /\ clicks >= 1
  /\ chimes = 1
  /\ pc = "ch_delay"

\* C14: the mode is MODE_SET_CLOCK_TIME at power-on and is only ever that or
\* MODE_CLOCK_TIME; it changes from set to clock only in the step of loop()
\* that follows a sample of button 3 pressed (line 230, reached from the
\* while condition of line 130 only), from clock to set only in the step
\* that follows samples of buttons 1 and 2 both pressed (line 281), and no
\* firing of the ISR changes it.
C14_ModeChanges ==
  /\ InSetMode
  /\ [][/\ displayMode' \in {MODE_SET_CLOCK_TIME, MODE_CLOCK_TIME}
        /\ TickStep => displayMode' = displayMode
        /\ (InSetMode /\ ~InSetMode') => (pc = "exit_mode" /\ InClockMode')
        /\ (InClockMode /\ ~InClockMode') => (pc = "sw_mode" /\ InSetMode')
        /\ Reaches("exit_s") => (pc = "set_b3")
        /\ Reaches("exit_mode") => (pc = "exit_s")
        /\ Reaches("sw_mode") => (pc = "sw_b2" /\ b1Held')
        /\ Reaches("sw_b2") => (pc = "sw_b1")]_vars

\* the clock has been started with button 3 and sent back to set mode with
\* buttons 1 and 2, with a tick on the way
C14_Witness ==
  /\ pc = "dwell_sw"
  /\ InSetMode
  /\ ticks >= 1
  /\ s >= 1

\* C15 as stated: a round trip clock mode -> set mode -> clock mode in which
\* buttons 1 and 2 are pressed only to enter set mode leaves the hour and
\* minute fields unchanged: while the press of button 1 that entered set
\* mode has not been released, no step of loop() changes them.
C15_EntryPressChangesNothing ==
  [][(b1Held /\ ~TickStep) => <<hd, he, md, me>>' = <<hd, he, md, me>>]_vars

\* C16: in clock mode no step of loop() writes hd, he, md, me or s, whatever
\* the buttons read.  The sample of button 3 only chooses the frame drawn:
\* md me s/10 s%10 when it reads pressed, hd he. md me when it does not (the
\* frame, if no tick fired inside it, shows those fields as they are); and
\* the samples of buttons 1 and 2 change nothing unless both read pressed,
\* when only the mode changes.
C16_ClockModeReadOnly ==
  [][(~TickStep /\ InClockMode) =>
       /\ reg' = reg
       /\ (Reaches("clk_ms") \/ Reaches("clk_hm")) => pc = "clk_b3"
       /\ (pc = "clk_ms" /\ Len(frame') = 4 /\ ~ftick') =>
            frame' = <<Seg(md), Seg(me), Seg(s \div 10), Seg(s % 10)>>
       /\ (pc = "clk_hm" /\ Len(frame') = 4 /\ ~ftick') =>
            frame' = <<Seg(hd), Seg(he) - 1, Seg(md), Seg(me)>>
       /\ (pc \in {"sw_b1", "sw_b2"}) => displayMode' = displayMode
       /\ (displayMode' # displayMode) => pc = "sw_mode"]_vars

\* after a tick, button 3 was held through a whole frame, which shows the
\* minute and the second where the other frame shows the hour and the minute
C16_Witness ==
  /\ InClockMode /\ pc = "sw_b1"
  /\ ticks >= 1 /\ atTick[2] = MODE_CLOCK_TIME
  /\ ~ftick
  /\ frame = <<Seg(md), Seg(me), Seg(s \div 10), Seg(s % 10)>>
  /\ frame # <<Seg(hd), Seg(he) - 1, Seg(md), Seg(me)>>
  /\ reg # atTick[3]

\* C17: the hour rule of the ISR (reset at hd = 2, he = 3) and the hour rule
\* of button 1 (reset at hd = 2, he > 2) give the same hour fields from the
\* hour of every state of the clock; over all digits hd 0..2, he 0..9 they
\* differ exactly from hd = 2 with he >= 4, which no state of the clock
\* holds; and the hour a press of button 1 leaves is the one both rules give
\* for the hour the press found.
C17_HourRulesAgree ==
  /\ Hour <= 23
  /\ SetHour(<<hd, he>>) = IsrHour(<<hd, he>>)
  /\ ~(hd = 2 /\ he >= 4)
  /\ \A h \in (0..2) \X (0..9) :
       (SetHour(h) # IsrHour(h)) <=> (h[1] = 2 /\ h[2] >= 4)
  /\ (pc = "dwell_h") =>
       /\ <<hd, he>> = SetHour(<<atPress[1], atPress[2]>>)
       /\ <<hd, he>> = IsrHour(<<atPress[1], atPress[2]>>)

\* the ISR carried 22:59:59 into 23:00:00, and a press of button 1 then
\* took 23 to 00
C17_Witness ==
  /\ ticks >= 1
  /\ atTick[2] = MODE_CLOCK_TIME /\ atTick[3] = <<2, 2, 5, 9, 59>>
  /\ pc = "dwell_h"
  /\ <<atPress[1], atPress[2]>> = <<2, 3>>
  /\ <<hd, he>> = <<0, 0>>

\* C18: a frame (four digits read one after another by loop()) shows a time
\* the register never held only when a tick fired between its reads: every
\* frame completed with no tick since its first digit shows the fields as
\* they are when it completes, in the layout of the code that drew it, so
\* the frame after a torn one is exact when no tick fires inside it.
C18_UninterruptedFrameExact ==
  [][(Len(frame) = 3 /\ Len(frame') = 4 /\ ~ftick') =>
       \/ pc = "clk_hm" /\ frame' = <<Seg(hd'), Seg(he') - 1, Seg(md'), Seg(me')>>
       \/ pc = "clk_ms" /\ frame' = <<Seg(md'), Seg(me'), Seg(s' \div 10), Seg(s' % 10)>>
       \/ pc = "set_render" /\ frame' = <<Seg(hd'), Seg(he'), Seg(md'), Seg(me')>>]_vars

\* a torn frame: the one tick so far fired inside an hour:minute frame (its
\* second pattern has the point lit), no button has changed a field, and
\* the frame shows neither the time before the tick nor the time after it
\* (19:59:59 and 20:00:00 give 19.00)
C18_Witness ==
  /\ pc = "sw_b1" /\ InClockMode
  /\ ticks = 1 /\ ftick /\ presses = 0
  /\ Len(frame) = 4 /\ frame[2] % 2 = 0
  /\ frame # <<Seg(hd), Seg(he) - 1, Seg(md), Seg(me)>>
  /\ frame # <<Seg(atTick[3][1]), Seg(atTick[3][2]) - 1, Seg(atTick[3][3]), Seg(atTick[3][4])>>

\* the positions of the three redraw loops
InDwell == pc \in {"dwell_h", "dwell_m", "dwell_sw"}

\* C19 as stated: every wait of loop() is bounded by a fixed iteration
\* count, so a pass that starts in set mode reaches the mode-switch test of
\* line 280 whatever button 3 reads.
C19_SetPassReachesSwitch == (pc = "set_b3") ~> (pc = "sw_b1")

\* C19: every redraw loop runs at most 300 iterations and ends, and a pass
\* that starts in clock mode ends whatever the buttons read; a pass in set
\* mode reaches the mode-switch test of line 280 only from the stores that
\* follow a sample of button 3 pressed.
C19_BoundedWaits ==
  /\ [](k < DWELL)
  /\ InDwell ~> ~InDwell
  /\ (pc = "clk_b3") ~> (pc = "top")
  /\ [][Reaches("sw_b1") => pc \in {"exit_mode", "clk_ms", "clk_hm"}]_vars

\* the last iteration of the redraw loop after the switch to set mode, with
\* a tick inside the loop
C19_Witness ==
  /\ pc = "dwell_sw"
  /\ k = DWELL - 1
  /\ ticks >= 1
  /\ atTick[2] = MODE_SET_CLOCK_TIME

\* C20 as stated: from power-on the buzzer pin is at its OFF level in every
\* state in which neither the ISR (one step here) nor the chime pulse of
\* lines 308-310 is executing.
C20_BuzzerOffOutsidePulses ==
  (pc \notin {"ch_delay", "ch_off"}) => buzzer = OFF

====
